---- MODULE Spec2Model ----
(***************************************************************************)
(* The authenticated image API: the API Gateway front (api-gateway.tf),    *)
(* the Lambda handler (lambda/index.js, the variant with the record store) *)
(* and the saved-images table with its user-index (dynamo.tf).             *)
(*                                                                         *)
(* A request occupies a lane.  Every await of the handler is one step, so  *)
(* the store calls of different requests interleave where lanes overlap.   *)
(* Times are epoch milliseconds; created_at is their ISO-8601 rendering,   *)
(* whose string order is the numeric order, so it is kept as the number.   *)
(* Strings the code takes apart (image URLs) are tuples of characters.     *)
(***************************************************************************)
EXTENDS Integers, Sequences, FiniteSets, TLC

\* ------------------------------------------------------------------ bounds
MaxClock == 1
MaxItems == 2
MaxLimit == 2

Lanes == {1, 2}

\* ------------------------------------------------------------- vocabulary
Users == {"u1", "u2"}
NoSub == ""
Owners == Users \cup {"unknown"}

UnknownBreed == <<"u", "n", "k", "n", "o", "w", "n">>
NoUrl == <<>>
UrlHound == <<"b", "r", "e", "e", "d", "s", "/", "a", "-", "b", "/", "i">>
UrlPlain == <<"x", "/", "a", "-", "b", "/", "i">>
Urls == {UrlHound, UrlPlain}

\* an imageUrl of a JSON body that is no string (the number 7)
UrlNumber == <<7>>
isString(url) == url # UrlNumber

\* the provider's current signing keys, as the authorizer sees them
PoolKeys == {"k1"}

Token(present, alg, kid, sig, expired, iss, aud, sub) ==
    [present |-> present, alg |-> alg, kid |-> kid, sig |-> sig,
     expired |-> expired, iss |-> iss, aud |-> aud, sub |-> sub]

NoToken == Token(FALSE, "", "", FALSE, FALSE, FALSE, FALSE, NoSub)
GoodToken(u) == Token(TRUE, "RS256", "k1", TRUE, FALSE, TRUE, TRUE, u)
ExpiredToken == Token(TRUE, "RS256", "k1", TRUE, TRUE, TRUE, TRUE, "u1")
ExpiredForged == Token(TRUE, "RS256", "k1", FALSE, TRUE, TRUE, TRUE, "u1")
AlgNoneToken == Token(TRUE, "none", "k1", FALSE, FALSE, TRUE, TRUE, "u1")
StrangerToken == Token(TRUE, "RS256", "k9", TRUE, FALSE, TRUE, TRUE, "u1")

Tokens == {NoToken, ExpiredToken, ExpiredForged, AlgNoneToken, StrangerToken}
              \cup {GoodToken(u) : u \in Users}

GatewayMethods == {"GET", "POST", "DELETE", "OPTIONS"}
AuthorizedMethods == {"GET", "POST", "DELETE"}
NoMethod == "undefined"
DirectMethods == GatewayMethods \cup {"PUT", NoMethod}

\* queryStringParameters: action and the raw text of limit
Limit(kind, n) == [kind |-> kind, n |-> n]
NoLimit == Limit("absent", 0)
LimitTexts == {NoLimit, Limit("text", 0)}
                  \cup {Limit("num", n) : n \in (0 - 1)..MaxLimit}
Query(action, limit) == [action |-> action, limit |-> limit]
NoQuery == Query("", NoLimit)
Queries == {NoQuery} \cup {Query("saved", lim) : lim \in LimitTexts}

\* event.body: absent, text that is no JSON, or a JSON object
Body(kind, action, imageUrl) ==
    [kind |-> kind, action |-> action, imageUrl |-> imageUrl]
NoBody == Body("absent", "", NoUrl)
Bodies == {NoBody, Body("text", "", NoUrl), Body("json", "", NoUrl),
           Body("json", "save_image", NoUrl)}
              \cup {Body("json", a, u) : a \in {"save_image", "delete_image"},
                                         u \in Urls}

Event(entry, method, token, sub, query, body) ==
    [entry |-> entry, method |-> method, token |-> token, sub |-> sub,
     query |-> query, body |-> body]

QueriesOf(method) == IF method = "GET" THEN Queries ELSE {NoQuery}
BodiesOf(method) == IF method \in {"POST", "DELETE"} THEN Bodies ELSE {NoBody}

\* ------------------------------------------------------------------ state
VARIABLES
    now,        \* the clock, epoch milliseconds
    table,      \* saved-images: the set of stored items, keyed (id, created_at)
    userIndex,  \* user-index: per user_id, the items in ascending created_at
    req,        \* per lane, the request in flight or the last one answered
    active,     \* the lanes that take requests
    traffic,    \* the kind of requests that arrive
    watch,      \* the histories a run records
    live,       \* history: items a save wrote that no delete has removed
    gone,       \* history: (owner, url) pairs deleted as the owner's only match
    lastList,   \* history: the last list answer since the last write
    app         \* the React app in one browser tab, with the Cognito side it uses

vars == <<now, table, userIndex, req, active, traffic, watch, live, gone, lastList, app>>

\* ------------------------------------------------------ pure helpers (JS)
\* parseInt(queryParams.limit) || 10
parseLimit(lim) == IF lim.kind = "num" /\ lim.n # 0 THEN lim.n ELSE 10

BreedsSlash == <<"b", "r", "e", "e", "d", "s", "/">>

\* the regular expression /breeds\/([^\/]+)\// applied at position i:
\* the position after the captured group, or 0 where there is no match at i
breedMatchEnd(url, i) ==
    IF i + 6 <= Len(url) /\ SubSeq(url, i, i + 6) = BreedsSlash
    THEN LET ends == {j \in (i + 8)..Len(url) :
                        /\ url[j] = "/"
                        /\ \A k \in (i + 7)..(j - 1) : url[k] # "/"}
         IN  IF ends = {} THEN 0 ELSE CHOOSE j \in ends : TRUE
    ELSE 0

\* String.prototype.replace(/-/g, ' ')
hyphensToSpaces(s) == [k \in 1..Len(s) |-> IF s[k] = "-" THEN " " ELSE s[k]]

\* the empty text, not 'unknown', where nothing matches
extractBreedOrEmpty(url) ==
    IF ~isString(url) THEN <<>>
    ELSE
    LET starts == {i \in 1..Len(url) : breedMatchEnd(url, i) # 0}
    IN  IF starts = {} THEN <<>>
        ELSE LET i == CHOOSE a \in starts : \A b \in starts : a <= b
             IN  hyphensToSpaces(SubSeq(url, i + 7, breedMatchEnd(url, i) - 1))

\* the captured group returned as it stands, its hyphens kept
extractBreedKeepingHyphens(url) ==
    IF ~isString(url) THEN UnknownBreed
    ELSE
    LET starts == {i \in 1..Len(url) : breedMatchEnd(url, i) # 0}
    IN  IF starts = {} THEN UnknownBreed
        ELSE LET i == CHOOSE a \in starts : \A b \in starts : a <= b
             IN  SubSeq(url, i + 7, breedMatchEnd(url, i) - 1)

\* url.match throws where url is no string; the catch block returns 'unknown'
extractBreedFromUrl(url) ==
    IF ~isString(url) THEN UnknownBreed
    ELSE
    LET starts == {i \in 1..Len(url) : breedMatchEnd(url, i) # 0}
    IN  IF starts = {} THEN UnknownBreed
        ELSE LET i == CHOOSE a \in starts : \A b \in starts : a <= b
             IN  hyphensToSpaces(SubSeq(url, i + 7, breedMatchEnd(url, i) - 1))

\* an item stored under the placeholder owner whoever the caller is
NewItemOfNobody(userId, timestamp, millis, url) ==
    [id |-> <<userId, millis>>,
     user_id |-> "unknown",
     created_at |-> timestamp,
     image_url |-> url,
     status |-> "success",
     breed |-> UnknownBreed,
     description |-> <<>>]

\* the item saveImageToDynamoDB builds: timestamp is new Date() of line 229,
\* millis the later Date.now() of line 232
NewItem(userId, timestamp, millis, url) ==
    [id |-> <<userId, millis>>,
     user_id |-> userId,
     created_at |-> timestamp,
     image_url |-> url,
     status |-> "success",
     breed |-> extractBreedFromUrl(url),
     description |-> <<"A beautiful", extractBreedFromUrl(url), "dog">>]

\* ------------------------------------------------- the table and its index
SameKey(a, b) == a.id = b.id /\ a.created_at = b.created_at

Without(seq, item) == SelectSeq(seq, LAMBDA x : ~SameKey(x, item))

InsertAt(seq, k, item) ==
    SubSeq(seq, 1, k) \o <<item>> \o SubSeq(seq, k + 1, Len(seq))

\* the places of the user-index partition (ascending created_at) where the
\* item may stand: after every older entry, before every newer one, anywhere
\* among the entries of its own created_at
IndexPlaces(seq, item) ==
    {k \in 0..Len(seq) :
        /\ \A j \in 1..k : seq[j].created_at <= item.created_at
        /\ \A j \in (k + 1)..Len(seq) : seq[j].created_at >= item.created_at}

Reverse(seq) == [k \in 1..Len(seq) |-> seq[Len(seq) + 1 - k]]

Prefix(seq, n) == SubSeq(seq, 1, IF n < Len(seq) THEN n ELSE Len(seq))

Range(seq) == {seq[k] : k \in 1..Len(seq)}

\* the query without ScanIndexForward false: oldest first
getSavedImagesOldestFirst(index, userId, limit) == Prefix(index[userId], limit)

\* a query that resumes after the page the call before it returned
getSavedImagesResuming(index, userId, limit) ==
    LET all == Reverse(index[userId])
        skip == IF lastList # <<>> /\ lastList[1].userId = userId
                THEN Len(lastList[1].items) ELSE 0
    IN  Prefix(SubSeq(all, skip + 1, Len(all)), limit)

\* Query on user-index with ScanIndexForward false and Limit
getSavedImages(index, userId, limit) == Prefix(Reverse(index[userId]), limit)

\* Query on user-index with FilterExpression image_url = :imageUrl
deleteCandidates(index, userId, imageUrl) ==
    SelectSeq(index[userId], LAMBDA x : x.image_url = imageUrl)

\* ------------------------------------------------------- requests, answers
Response(statusCode, by, message, error, user) ==
    [statusCode |-> statusCode, by |-> by, message |-> message,
     error |-> error, user |-> user, cors |-> TRUE,
     dogData |-> <<>>, savedImage |-> <<>>, savedImages |-> <<>>,
     count |-> 0, deleteResult |-> <<>>]

NoEvent == Event("", "", NoToken, NoSub, NoQuery, NoBody)

Request(pc, ev) ==
    [pc |-> pc, ev |-> ev, userId |-> "", limit |-> 0, save |-> FALSE,
     dog |-> NoUrl, item |-> <<>>, found |-> <<>>, ops |-> {}, resp |-> <<>>]

\* JSON.parse(event.body) leaves null or undefined where the body is absent
\* (or is the JSON text null), so that body.action throws a TypeError inside
\* the try block
bodyThrows(body) == body.kind = "absent"

isSaveImage(body) ==
    body.kind = "json" /\ body.action = "save_image" /\ body.imageUrl # NoUrl

isDeleteImage(body) ==
    body.kind = "json" /\ body.action = "delete_image" /\ body.imageUrl # NoUrl

\* The traffic a run draws its requests from.  "open": both entries and every
\* token, with one list query and the save and delete bodies of one URL.
\* "signedin": the gateway with accepted tokens (and one refused request),
\* with every query and every body.
OpenQueries == {NoQuery, Query("saved", NoLimit)}
OpenBodies == {NoBody, Body("json", "save_image", UrlHound),
               Body("json", "delete_image", UrlHound)}

WellFormed(e, queries, bodies) ==
    /\ e.query \in (QueriesOf(e.method) \cap queries)
    /\ e.body \in (BodiesOf(e.method) \cap bodies)

OpenEvents ==
    {e \in {Event("apigw", m, t, t.sub, q, b) :
                m \in GatewayMethods, t \in Tokens,
                q \in OpenQueries, b \in OpenBodies} :
        WellFormed(e, OpenQueries, OpenBodies)}
    \cup
    {e \in {Event("direct", m, t, NoSub, q, b) :
                m \in DirectMethods, t \in Tokens \ {GoodToken(u) : u \in Users},
                q \in OpenQueries, b \in OpenBodies} :
        WellFormed(e, OpenQueries, OpenBodies)}
    \cup
    {e \in {Event("direct", m, NoToken, "u1", q, b) :
                m \in AuthorizedMethods, q \in OpenQueries, b \in OpenBodies} :
        WellFormed(e, OpenQueries, OpenBodies)}

SignedInEvents ==
    {e \in {Event("apigw", m, GoodToken(u), u, q, b) :
                m \in GatewayMethods, u \in Users, q \in Queries, b \in Bodies} :
        WellFormed(e, Queries, Bodies)}
    \cup {Event("apigw", "GET", NoToken, NoSub, NoQuery, NoBody)}

\* "saving": signed-in users who save, delete and list, with every shape of
\* limit that reaches the store as a positive number
SavingQueries ==
    {NoQuery, Query("saved", NoLimit), Query("saved", Limit("num", 1)),
     Query("saved", Limit("num", MaxLimit))}
SavingBodies ==
    {Body("json", a, u) : a \in {"save_image", "delete_image"}, u \in Urls}

SavingEvents ==
    {e \in {Event("apigw", m, GoodToken(u), u, q, b) :
                m \in GatewayMethods, u \in Users,
                q \in SavingQueries, b \in SavingBodies \cup {NoBody}} :
        /\ WellFormed(e, SavingQueries, SavingBodies \cup {NoBody})
        /\ e.method = "POST" => isSaveImage(e.body)
        /\ e.method = "DELETE" => isDeleteImage(e.body)}
    \cup {Event("apigw", "GET", NoToken, NoSub, NoQuery, NoBody)}

\* "listing": the saving traffic with one URL to save and delete
ListingEvents == {e \in SavingEvents : e.body.imageUrl \in {NoUrl, UrlHound}}

\* "racing": one signed-in user who saves two URLs, deletes and lists one
RacingEvents ==
    {Event("apigw", "POST", GoodToken("u1"), "u1", NoQuery,
           Body("json", "save_image", UrlHound)),
     Event("apigw", "POST", GoodToken("u1"), "u1", NoQuery,
           Body("json", "save_image", UrlPlain)),
     Event("apigw", "DELETE", GoodToken("u1"), "u1", NoQuery,
           Body("json", "delete_image", UrlHound)),
     Event("apigw", "GET", GoodToken("u1"), "u1", Query("saved", NoLimit), NoBody),
     Event("apigw", "GET", GoodToken("u1"), "u1", NoQuery, NoBody),
     Event("apigw", "GET", NoToken, NoSub, NoQuery, NoBody),
     Event("apigw", "OPTIONS", NoToken, NoSub, NoQuery, NoBody)}

\* "methods": the function invoked directly with every method, and the two
\* requests the gateway answers itself
MethodsEvents ==
    {e \in {Event("direct", m, NoToken, NoSub, q, b) :
                m \in DirectMethods, q \in OpenQueries, b \in OpenBodies} :
        WellFormed(e, OpenQueries, OpenBodies)}
    \cup {Event("apigw", "GET", NoToken, NoSub, NoQuery, NoBody),
          Event("apigw", "OPTIONS", NoToken, NoSub, NoQuery, NoBody)}

\* "posting": signed-in users who send POST and DELETE with every body, a
\* save of a number among them, and one request of a method the switch of
\* the handler does not know
PostingBodies == Bodies \cup {Body("json", "save_image", UrlNumber)}

PostingEvents ==
    {Event("apigw", m, GoodToken(u), u, NoQuery, b) :
        m \in {"POST", "DELETE"}, u \in Users, b \in PostingBodies}
    \cup {Event("apigw", "GET", NoToken, NoSub, NoQuery, NoBody),
          Event("direct", "PUT", NoToken, NoSub, NoQuery, NoBody),
          Event("apigw", "GET", GoodToken("u1"), "u1", Query("saved", NoLimit), NoBody),
          Event("apigw", "OPTIONS", NoToken, NoSub, NoQuery, NoBody)}

Events ==
    CASE traffic = "open" -> OpenEvents
      [] traffic = "signedin" -> SignedInEvents
      [] traffic = "methods" -> MethodsEvents
      [] traffic = "listing" -> ListingEvents
      [] traffic = "posting" -> PostingEvents
      [] traffic = "saving" -> SavingEvents
      [] OTHER -> RacingEvents

\* the requests of a lane that may still write an item
Writers == {l \in Lanes : req[l].ev.method = "POST" /\ req[l].pc # "responded"}

\* JavaScript's null
null == "null"

\* the user pool before the tab opens: u1 has a confirmed account, u2 none
Pool0 == [u \in Users |-> IF u = "u1" THEN "confirmed" ELSE "absent"]

\* the state of App when the page loads: the useState initial values, with
\* checkAuthState started by the mount effect; session is the user whose
\* tokens Amplify holds, pool the accounts of the user pool
useState(session, pool) ==
    [authState |-> "signIn", user |-> null, userInfo |-> null,
     loading |-> FALSE, check |-> "await_getCurrentUser",
     form |-> "idle", email |-> "", secret |-> FALSE, out |-> "idle",
     session |-> session, pool |-> pool,
     proven |-> FALSE, last |-> "load"]

Start ==
    /\ now = 0
    /\ table = {}
    /\ userIndex = [o \in Owners |-> <<>>]
    /\ req = [l \in Lanes |-> Request("idle", NoEvent)]
    /\ live = {}
    /\ gone = {}
    /\ lastList = <<>>

Init == Start /\ active = {1} /\ traffic = "open" /\ watch = {} /\ app = useState(null, Pool0)

InitSignedIn == Start /\ active = {1} /\ traffic = "signedin" /\ watch = {} /\ app = useState(null, Pool0)

InitLive == Start /\ active = {1} /\ traffic = "saving" /\ watch = {"live"} /\ app = useState(null, Pool0)

InitGone == Start /\ active = {1} /\ traffic = "saving" /\ watch = {"gone"} /\ app = useState(null, Pool0)

InitRacing == Start /\ active = Lanes /\ traffic = "racing" /\ watch = {} /\ app = useState(null, Pool0)

InitMethods == Start /\ active = {1} /\ traffic = "methods" /\ watch = {} /\ app = useState(null, Pool0)

InitPosting == Start /\ active = {1} /\ traffic = "posting" /\ watch = {} /\ app = useState(null, Pool0)

InitLastList == Start /\ active = {1} /\ traffic = "listing" /\ watch = {"lastList"} /\ app = useState(null, Pool0)

Respond(r, resp) == [r EXCEPT !.pc = "responded", !.resp = <<resp>>]

\* a request arrives, at the API Gateway stage or at the function directly
\* (function URL, lambda:InvokeFunction)
Receive(l) ==
    /\ l \in active
    /\ req[l].pc \in {"idle", "responded"}
    /\ \E e \in Events :
        /\ e.method = "POST" => Cardinality(table) + Cardinality(Writers) < MaxItems
        /\ req' = [req EXCEPT ![l] = Request("received", e)]
    /\ UNCHANGED <<now, table, userIndex, active, traffic, watch, live, gone, lastList, app>>

Tick ==
    /\ now < MaxClock
    /\ now' = now + 1
    /\ UNCHANGED <<table, userIndex, req, active, traffic, watch, live, gone, lastList, app>>

\* COGNITO_USER_POOLS authorizer on the Authorization header
CognitoAuthorizerAccepts(t) ==
    /\ t.present
    /\ t.alg = "RS256"
    /\ t.kid \in PoolKeys
    /\ t.sig
    /\ ~t.expired
    /\ t.iss
    /\ t.aud

\* the gateway answers 401 itself; the function is not invoked.  No
\* aws_api_gateway_gateway_response is configured, so the answer carries no
\* cross-origin header
GatewayDeny(l) ==
    /\ req[l].pc = "received"
    /\ req[l].ev.entry = "apigw"
    /\ req[l].ev.method \in AuthorizedMethods
    /\ ~CognitoAuthorizerAccepts(req[l].ev.token)
    /\ req' = [req EXCEPT ![l] =
                  Respond(req[l], [Response(401, "gateway", "Unauthorized", "", "")
                                      EXCEPT !.cors = FALSE])]
    /\ UNCHANGED <<now, table, userIndex, active, traffic, watch, live, gone, lastList, app>>

\* OPTIONS at the gateway is a MOCK integration
GatewayOptions(l) ==
    /\ req[l].pc = "received"
    /\ req[l].ev.entry = "apigw"
    /\ req[l].ev.method = "OPTIONS"
    /\ req' = [req EXCEPT ![l] = Respond(req[l], Response(200, "gateway", "", "", ""))]
    /\ UNCHANGED <<now, table, userIndex, active, traffic, watch, live, gone, lastList, app>>

Invoked(r) ==
    /\ r.pc = "received"
    /\ \/ r.ev.entry = "direct"
       \/ /\ r.ev.entry = "apigw"
          /\ r.ev.method \in AuthorizedMethods
          /\ CognitoAuthorizerAccepts(r.ev.token)

\* ------------------------------------------------------------ the handler
\* claims.sub || 'unknown'
userIdOf(sub) == IF sub # NoSub THEN sub ELSE "unknown"

handleGetRequest(r) ==
    IF r.ev.query.action = "saved"
    THEN [r EXCEPT !.pc = "await_list", !.userId = userIdOf(r.ev.sub),
                   !.limit = parseLimit(r.ev.query.limit)]
    ELSE [r EXCEPT !.pc = "await_dog", !.userId = userIdOf(r.ev.sub)]

\* a default branch that answers at once and saves nothing
handlePostRequestNoOp(r, timestamp, millis) ==
    IF bodyThrows(r.ev.body)
    THEN Respond(r, Response(500, "handler", "Error processing POST request",
                             "TypeError", ""))
    ELSE IF isSaveImage(r.ev.body)
    THEN [r EXCEPT !.pc = "await_put", !.userId = userIdOf(r.ev.sub),
                   !.save = TRUE,
                   !.item = <<NewItem(userIdOf(r.ev.sub), timestamp, millis,
                                      r.ev.body.imageUrl)>>]
    ELSE Respond(r, Response(200, "handler", "Data received", "",
                             userIdOf(r.ev.sub)))

handlePostRequest(r, timestamp, millis) ==
    IF bodyThrows(r.ev.body)
    THEN Respond(r, Response(500, "handler", "Error processing POST request",
                             "TypeError", ""))
    ELSE IF isSaveImage(r.ev.body)
    THEN [r EXCEPT !.pc = "await_put", !.userId = userIdOf(r.ev.sub),
                   !.save = TRUE,
                   !.item = <<NewItem(userIdOf(r.ev.sub), timestamp, millis,
                                      r.ev.body.imageUrl)>>]
    ELSE [r EXCEPT !.pc = "await_dog", !.userId = userIdOf(r.ev.sub)]

handleDeleteRequest(r) ==
    IF bodyThrows(r.ev.body)
    THEN Respond(r, Response(500, "handler", "Error processing DELETE request",
                             "TypeError", ""))
    ELSE IF isDeleteImage(r.ev.body)
    THEN [r EXCEPT !.pc = "await_find", !.userId = userIdOf(r.ev.sub)]
    ELSE Respond(r, Response(400, "handler", "Invalid DELETE request", "", ""))

\* a switch whose default branch is the GET handler
dispatchDefaultingToGet(r, timestamp, millis) ==
    CASE r.ev.method = "POST" -> handlePostRequest(r, timestamp, millis)
      [] r.ev.method = "DELETE" -> handleDeleteRequest(r)
      [] r.ev.method = "OPTIONS" -> Respond(r, Response(200, "handler", "", "", ""))
      [] OTHER -> handleGetRequest(r)

\* exports.handler up to the first await of the method's handler
dispatch(r, timestamp, millis) ==
    CASE r.ev.method = "GET" -> handleGetRequest(r)
      [] r.ev.method = "POST" -> handlePostRequest(r, timestamp, millis)
      [] r.ev.method = "DELETE" -> handleDeleteRequest(r)
      [] r.ev.method = "OPTIONS" -> Respond(r, Response(200, "handler", "", "", ""))
      [] OTHER -> Respond(r, Response(405, "handler", "Method not allowed", "", ""))

\* the clock readings of one call of saveImageToDynamoDB: new Date() reads
\* the clock, Date.now() reads it again, in the same millisecond or the next
Readings == {ms \in {now, now + 1} : ms <= MaxClock}

handler(l) ==
    /\ Invoked(req[l])
    /\ \E ms \in Readings :
        LET next == dispatch(req[l], now, ms)
        IN  /\ next.item = <<>> => ms = now
            /\ req' = [req EXCEPT ![l] = next]
            /\ now' = ms
    /\ UNCHANGED <<table, userIndex, active, traffic, watch, live, gone, lastList, app>>

methodMessage(r) ==
    CASE r.ev.method = "GET" -> "Error processing GET request"
      [] r.ev.method = "POST" -> "Error processing POST request"
      [] OTHER -> "Error processing DELETE request"

\* a catch block that returns the status and the body without headers
caughtWithoutHeaders(r, text) ==
    Respond(r, [Response(500, "handler", methodMessage(r), text, "")
                   EXCEPT !.cors = FALSE])

\* the catch block of the method's handler: 500 with error.message
caught(r, text) == Respond(r, Response(500, "handler", methodMessage(r), text, ""))

\* an answer that holds the image of an earlier fetch, not the one just made
fetchedResponseOfFirstImage(r, url) ==
    [Response(200, "handler", "Dog image fetched successfully!", "", r.userId)
        EXCEPT !.dogData = <<UrlHound>>]

\* the answer of the default GET: dogData is the JSON the endpoint returned
fetchedResponse(r, url) ==
    [Response(200, "handler", "Dog image fetched successfully!", "", r.userId)
        EXCEPT !.dogData = <<url>>]

\* await makeHttpRequest('https://dog.ceo/api/breeds/image/random')
awaitDog(l) ==
    /\ req[l].pc = "await_dog"
    /\ \/ /\ req' = [req EXCEPT ![l] = caught(req[l], "Invalid JSON response")]
          /\ now' = now
       \/ /\ req[l].ev.method = "GET"
          /\ \E url \in Urls :
                req' = [req EXCEPT ![l] =
                    Respond([req[l] EXCEPT !.dog = url],
                            fetchedResponse(req[l], url))]
          /\ now' = now
       \/ /\ req[l].ev.method = "POST"
          /\ \E url \in Urls, ms \in Readings :
                /\ req' = [req EXCEPT ![l] =
                     [req[l] EXCEPT !.pc = "await_put", !.dog = url,
                               !.item = <<NewItem(req[l].userId, now, ms, url)>>]]
                /\ now' = ms
    /\ UNCHANGED <<table, userIndex, active, traffic, watch, live, gone, lastList, app>>

\* ------------------------------------------------------- the store calls
Did(r, op) == [r EXCEPT !.ops = @ \cup {op}]

\* PutItem replaces the item of the same primary key, if there is one
putTable(item) == {x \in table : ~SameKey(x, item)} \cup {item}

putIndex(item, k) ==
    [userIndex EXCEPT ![item.user_id] = InsertAt(Without(userIndex[item.user_id], item), k, item)]

\* DeleteItem by primary key; deleting a key that is not stored succeeds
deleteTable(item) == {x \in table : ~SameKey(x, item)}

deleteIndex(item) == [o \in Owners |-> Without(userIndex[o], item)]

savedResponse(r) ==
    IF r.save
    THEN [Response(200, "handler", "Image saved successfully!", "", r.userId)
            EXCEPT !.savedImage = r.item]
    ELSE [Response(201, "handler",
                   "Data received and dog image fetched and saved!", "", r.userId)
            EXCEPT !.savedImage = r.item, !.dogData = <<r.dog>>]

\* await dynamodb.put(params).promise() in saveImageToDynamoDB
awaitPut(l) ==
    /\ req[l].pc = "await_put"
    /\ \/ /\ req' = [req EXCEPT ![l] = caught(Did(req[l], "put"), "put failed")]
          /\ UNCHANGED <<table, userIndex, live, gone, lastList>>
       \/ LET item == req[l].item[1]
          IN  /\ table' = putTable(item)
              /\ \E k \in IndexPlaces(Without(userIndex[item.user_id], item), item) :
                    userIndex' = putIndex(item, k)
              /\ req' = [req EXCEPT ![l] = Respond(Did(req[l], "put"), savedResponse(req[l]))]
              /\ live' = IF "live" \in watch
                         THEN live \cup {[owner |-> req[l].userId, item |-> item]}
                         ELSE live
              /\ gone' = gone \ {<<req[l].userId, item.image_url>>}
              /\ lastList' = <<>>
    /\ UNCHANGED <<now, active, traffic, watch, app>>

\* the list call repeats the one before it, no write between the two
SameList(r) ==
    /\ lastList # <<>>
    /\ lastList[1].userId = r.userId
    /\ lastList[1].limit = r.limit

listResponse(r, items) ==
    [Response(200, "handler", "Saved images retrieved successfully!", "", r.userId)
        EXCEPT !.savedImages = items, !.count = Len(items)]

\* await dynamodb.query(params).promise() in getSavedImages; the store
\* refuses a Limit below 1
awaitList(l) ==
    /\ req[l].pc = "await_list"
    /\ \/ /\ req' = [req EXCEPT ![l] = caught(Did(req[l], "query"), "query failed")]
          /\ UNCHANGED lastList
       \/ /\ req[l].limit < 1
          /\ req' = [req EXCEPT ![l] = caught(Did(req[l], "query"), "ValidationException")]
          /\ UNCHANGED lastList
       \/ /\ req[l].limit >= 1
          /\ LET items == getSavedImages(userIndex, req[l].userId, req[l].limit)
             IN  /\ req' = [req EXCEPT ![l] =
                              Respond(Did(req[l], "query"), listResponse(req[l], items))]
                 /\ lastList' = IF "lastList" \in watch
                                THEN <<[userId |-> req[l].userId,
                                        limit |-> req[l].limit, items |-> items,
                                        again |-> SameList(req[l])]>>
                                ELSE <<>>
    /\ UNCHANGED <<now, table, userIndex, active, traffic, watch, live, gone, app>>

\* await dynamodb.query(queryParams).promise() in deleteImageFromDynamoDB
awaitFind(l) ==
    /\ req[l].pc = "await_find"
    /\ \/ req' = [req EXCEPT ![l] = caught(Did(req[l], "query"), "query failed")]
       \/ LET items == deleteCandidates(userIndex, req[l].userId,
                                        req[l].ev.body.imageUrl)
          IN  IF Len(items) = 0
              THEN req' = [req EXCEPT ![l] =
                      caught(Did(req[l], "query"), "Image not found in saved collection")]
              ELSE req' = [req EXCEPT ![l] =
                      [Did(req[l], "query") EXCEPT !.pc = "await_delete", !.found = items]]
    /\ UNCHANGED <<now, table, userIndex, active, traffic, watch, live, gone, lastList, app>>

\* a Key whose created_at is read from the clock, not from the item found
deleteKeyFromClock(found) == [found[1] EXCEPT !.created_at = now + 1]

\* Key: {id: Items[0].id, created_at: Items[0].created_at}
deleteKeyOf(found) == found[1]

\* the stored records of the caller with the URL the request names
Holding(r) ==
    {x \in table : x.user_id = r.userId /\ x.image_url = r.ev.body.imageUrl}

deleteResponse(r) ==
    [Response(200, "handler", "Image deleted successfully!", "", r.userId)
        EXCEPT !.deleteResult = <<r.found[1].id>>]

\* await dynamodb.delete(deleteParams).promise() in deleteImageFromDynamoDB
awaitDelete(l) ==
    /\ req[l].pc = "await_delete"
    /\ \/ /\ req' = [req EXCEPT ![l] = caught(Did(req[l], "delete"), "delete failed")]
          /\ UNCHANGED <<table, userIndex, live, gone, lastList>>
       \/ LET item == deleteKeyOf(req[l].found)
          IN  /\ table' = deleteTable(item)
              /\ userIndex' = deleteIndex(item)
              /\ req' = [req EXCEPT ![l] = Respond(Did(req[l], "delete"), deleteResponse(req[l]))]
              /\ live' = {x \in live : ~SameKey(x.item, item)}
              /\ gone' = IF "gone" \in watch /\ Cardinality(Holding(req[l])) = 1
                         THEN gone \cup {<<req[l].userId, req[l].ev.body.imageUrl>>}
                         ELSE gone
              /\ lastList' = <<>>
    /\ UNCHANGED <<now, active, traffic, watch, app>>

\* The function's timeout (lambda.tf, 30 s) ends an execution that waits on
\* a collaborator that never replies: no outbound call of index.js sets a
\* timeout of its own.  The handler returns nothing; the caller gets the
\* platform's answer, the gateway's 504 or the function error of the
\* invocation, and the call that never replied has changed nothing.
taskTimedOut(l) ==
    /\ req[l].pc \in {"await_dog", "await_put", "await_list", "await_find",
                      "await_delete"}
    /\ req' = [req EXCEPT ![l] =
                  Respond(req[l],
                          [Response(IF req[l].ev.entry = "apigw" THEN 504 ELSE 0,
                                    "platform", "", "Task timed out", "")
                              EXCEPT !.cors = FALSE])]
    /\ UNCHANGED <<now, table, userIndex, active, traffic, watch, live, gone, lastList, app>>

\* --------------------------------------------------------- specification
Next ==
    \/ \E l \in Lanes : Receive(l)
    \/ Tick
    \/ \E l \in Lanes : GatewayDeny(l)
    \/ \E l \in Lanes : GatewayOptions(l)
    \/ \E l \in Lanes : handler(l)
    \/ \E l \in Lanes : awaitDog(l)
    \/ \E l \in Lanes : awaitPut(l)
    \/ \E l \in Lanes : awaitList(l)
    \/ \E l \in Lanes : awaitFind(l)
    \/ \E l \in Lanes : awaitDelete(l)
    \/ \E l \in Lanes : taskTimedOut(l)

Spec == Init /\ [][Next]_vars

SpecSignedIn == InitSignedIn /\ [][Next]_vars

SpecLive == InitLive /\ [][Next]_vars

SpecGone == InitGone /\ [][Next]_vars

SpecLastList == InitLastList /\ [][Next]_vars

SpecRacing == InitRacing /\ [][Next]_vars

SpecMethods == InitMethods /\ [][Next]_vars

SpecPosting == InitPosting /\ [][Next]_vars

\* ------------------------------------------------------- the React app
backend == <<now, table, userIndex, req, active, traffic, watch, live, gone, lastList>>

\* the tab opens with or without tokens of an earlier visit of u1
InitApp ==
    /\ Start /\ active = {} /\ traffic = "app" /\ watch = {}
    /\ app \in {useState(s, Pool0) : s \in {null, "u1"}}

\* what App returns
render(a) ==
    CASE a.authState = "signIn" -> "renderSignIn"
      [] a.authState = "signUp" -> "renderSignUp"
      [] a.authState = "confirmSignUp" -> "renderConfirmSignUp"
      [] a.authState = "authenticated" -> "renderAuthenticated"
      [] OTHER -> null

\* the end of a form handler: finally { setLoading(false) }
settle(a, what) == [a EXCEPT !.form = "idle", !.loading = FALSE, !.last = what]

\* checkAuthState: await getCurrentUser() of the mount effect
checkAuthState ==
    /\ app.check = "await_getCurrentUser"
    /\ \/ /\ app.session # null
          /\ app' = [app EXCEPT !.check = "done", !.user = app.session,
                                !.userInfo = app.session,
                                !.authState = "authenticated",
                                !.proven = TRUE, !.last = "getCurrentUser"]
       \/ app' = [app EXCEPT !.check = "done", !.authState = "signIn",
                             !.last = "getCurrentUser threw"]
    /\ UNCHANGED backend

\* handleSignIn up to await signIn(...)
handleSignIn ==
    /\ render(app) = "renderSignIn" /\ ~app.loading
    /\ \E e \in Users, password \in BOOLEAN :
          app' = [app EXCEPT !.form = "await_signIn", !.loading = TRUE,
                             !.email = e, !.secret = password,
                             !.last = "submit"]
    /\ UNCHANGED backend

\* signIn settles: isSignedIn, or a further step is due, or it throws
awaitSignIn ==
    /\ app.form = "await_signIn"
    /\ \/ /\ app.session = null /\ app.pool[app.email] = "confirmed" /\ app.secret
          /\ app' = [app EXCEPT !.form = "await_getCurrentUser",
                                !.session = app.email,
                                !.proven = TRUE, !.last = "signIn"]
       \/ /\ app.pool[app.email] = "unconfirmed" /\ app.secret
          /\ app' = settle(app, "signIn not isSignedIn")
       \/ app' = settle(app, "signIn threw")
    /\ UNCHANGED backend

\* handleSignIn after isSignedIn: await getCurrentUser()
awaitCurrentUser ==
    /\ app.form = "await_getCurrentUser"
    /\ \/ /\ app.session # null
          /\ app' = [settle(app, "getCurrentUser")
                        EXCEPT !.user = app.session, !.userInfo = app.session,
                               !.authState = "authenticated"]
       \/ app' = settle(app, "getCurrentUser threw")
    /\ UNCHANGED backend

\* handleSignUp up to await signUp(...)
handleSignUp ==
    /\ render(app) = "renderSignUp" /\ ~app.loading
    /\ \E e \in Users :
          app' = [app EXCEPT !.form = "await_signUp", !.loading = TRUE,
                             !.email = e, !.last = "submit"]
    /\ UNCHANGED backend

awaitSignUp ==
    /\ app.form = "await_signUp"
    /\ \/ /\ app.pool[app.email] = "absent"
          /\ app' = [settle(app, "signUp")
                        EXCEPT !.pool[app.email] = "unconfirmed",
                               !.authState = "confirmSignUp"]
       \/ app' = settle(app, "signUp threw")
    /\ UNCHANGED backend

\* handleConfirmSignUp up to await confirmSignUp(...)
handleConfirmSignUp ==
    /\ render(app) = "renderConfirmSignUp" /\ ~app.loading
    /\ \E e \in Users, code \in BOOLEAN :
          app' = [app EXCEPT !.form = "await_confirmSignUp", !.loading = TRUE,
                             !.email = e, !.secret = code, !.last = "submit"]
    /\ UNCHANGED backend

\* an app that opens the content as soon as the e-mail is verified
confirmSignUpDoneSignedIn(a) ==
    [settle(a, "confirmSignUp")
        EXCEPT !.pool[a.email] = "confirmed", !.authState = "authenticated"]

\* handleConfirmSignUp after confirmSignUp resolved
confirmSignUpDone(a) ==
    [settle(a, "confirmSignUp")
        EXCEPT !.pool[a.email] = "confirmed", !.authState = "signIn"]

awaitConfirmSignUp ==
    /\ app.form = "await_confirmSignUp"
    /\ \/ /\ app.pool[app.email] = "unconfirmed" /\ app.secret
          /\ app' = confirmSignUpDone(app)
       \/ app' = settle(app, "confirmSignUp threw")
    /\ UNCHANGED backend

\* the links between the forms: onClick={() => setAuthState(...)}
showSignUp ==
    /\ render(app) \in {"renderSignIn", "renderConfirmSignUp"}
    /\ app' = [app EXCEPT !.authState = "signUp", !.last = "click"]
    /\ UNCHANGED backend

showSignIn ==
    /\ render(app) = "renderSignUp"
    /\ app' = [app EXCEPT !.authState = "signIn", !.last = "click"]
    /\ UNCHANGED backend

\* handleSignOut up to await signOut(), from the Logout item of the navbar
handleSignOut ==
    /\ render(app) = "renderAuthenticated" /\ app.out = "idle"
    /\ app' = [app EXCEPT !.out = "await_signOut", !.last = "click"]
    /\ UNCHANGED backend

\* signOut settles; on success the state is cleared and the page reloads
awaitSignOut ==
    /\ app.out = "await_signOut"
    /\ \/ app' = [useState(null, app.pool) EXCEPT !.last = "signOut"]
       \/ app' = [app EXCEPT !.out = "idle", !.last = "signOut threw"]
    /\ UNCHANGED backend

\* handleDeleteAccount up to await deleteUser()
handleDeleteAccount ==
    /\ render(app) = "renderAuthenticated" /\ app.out = "idle"
    /\ app' = [app EXCEPT !.out = "await_deleteUser", !.last = "click"]
    /\ UNCHANGED backend

\* deleteUser settles; on success handleSignOut() is called
awaitDeleteUser ==
    /\ app.out = "await_deleteUser"
    /\ \/ /\ app.session # null
          /\ app' = [app EXCEPT !.pool[app.session] = "absent",
                                !.session = null,
                                !.out = "await_signOut",
                                !.last = "deleteUser"]
       \/ app' = [app EXCEPT !.out = "idle", !.last = "deleteUser threw"]
    /\ UNCHANGED backend

NextApp ==
    \/ checkAuthState
    \/ handleSignIn
    \/ awaitSignIn
    \/ awaitCurrentUser
    \/ handleSignUp
    \/ awaitSignUp
    \/ handleConfirmSignUp
    \/ awaitConfirmSignUp
    \/ showSignUp
    \/ showSignIn
    \/ handleSignOut
    \/ awaitSignOut
    \/ handleDeleteAccount
    \/ awaitDeleteUser

SpecApp == InitApp /\ [][NextApp]_vars

\* ------------------------------------------------------------ the claims
Answered(r) == r.pc = "responded"

Answer(r) == r.resp[1]

\* a method handler (handleGetRequest, handlePostRequest, handleDeleteRequest)
\* has taken the request
Served(r) ==
    /\ r.ev.method \in AuthorizedMethods
    /\ \/ r.pc \in {"await_list", "await_dog", "await_put", "await_find",
                    "await_delete"}
       \/ Answered(r) /\ Answer(r).by = "handler"

\* C1: a GET, POST or DELETE request whose bearer token fails verification
\* is answered 401 and makes no call to the record store.
C1_UnverifiedIs401WithoutStore ==
    \A l \in Lanes :
        (/\ req[l].ev.method \in AuthorizedMethods
         /\ ~CognitoAuthorizerAccepts(req[l].ev.token))
        => /\ req[l].ops = {}
           /\ Answered(req[l]) => Answer(req[l]).statusCode = 401

\* C2: a request without an Authorization header is answered 401 and is
\* never served by a method handler.
C2_NoHeaderIs401 ==
    \A l \in Lanes :
        (/\ req[l].ev.method \in AuthorizedMethods
         /\ ~req[l].ev.token.present)
        => /\ ~Served(req[l])
           /\ Answered(req[l]) => Answer(req[l]).statusCode = 401

\* C3: a request whose token has an exp in the past, its signature valid or
\* not, is answered 401 and no store call is attempted.
C3_ExpiredIs401WithoutStore ==
    \A l \in Lanes :
        (/\ req[l].ev.method \in AuthorizedMethods
         /\ req[l].ev.token.present
         /\ req[l].ev.token.expired)
        => /\ req[l].ops = {}
           /\ Answered(req[l]) => Answer(req[l]).statusCode = 401

\* C4: no request reaches a method handler with a token whose declared
\* algorithm is not RS256 or whose signature does not verify.
C4_UnsignedNeverServed ==
    \A l \in Lanes :
        (/\ req[l].ev.token.present
         /\ \/ req[l].ev.token.alg # "RS256"
            \/ ~req[l].ev.token.sig)
        => ~Served(req[l])

\* C5: a token signed with a key that the provider's key set does not hold
\* fails verification (KeyNotFound): its request is never served and is
\* answered 401.
C5_UnknownKeyIsRejected ==
    \A l \in Lanes :
        (/\ req[l].ev.token.present
         /\ req[l].ev.token.kid \notin PoolKeys)
        => /\ ~Served(req[l])
           /\ (Answered(req[l]) /\ req[l].ev.method \in AuthorizedMethods)
                 => Answer(req[l]).statusCode = 401

\* C8: a DELETE with a valid token and a delete_image body whose URL the
\* caller holds no record of is answered 404.
C8_DeleteOfMissingIs404 ==
    \A l \in Lanes :
        (/\ Answered(req[l])
         /\ req[l].ev.method = "DELETE"
         /\ CognitoAuthorizerAccepts(req[l].ev.token)
         /\ isDeleteImage(req[l].ev.body)
         /\ req[l].ops = {"query"}
         /\ Answer(req[l]).error = "Image not found in saved collection")
        => Answer(req[l]).statusCode = 404

\* the step in which lane l's list call (getSavedImages) returns its items
Listed(l) ==
    /\ req[l].pc = "await_list"
    /\ req'[l].pc = "responded"
    /\ req'[l].resp[1].statusCode = 200

ListedItems(l) == req'[l].resp[1].savedImages

HasListed(r) ==
    /\ Answered(r)
    /\ r.ev.query.action = "saved"
    /\ Answer(r).statusCode = 200

OwnedBy(owner) == {x \in table : x.user_id = owner}

\* the stored records of the owner, other than item, that are as new or newer
NotOlder(item) ==
    {x \in OwnedBy(item.user_id) : x # item /\ x.created_at >= item.created_at}

Least(a, b) == IF a < b THEN a ELSE b

C7_DeletedIsNotListed ==
    [][\A l \in Lanes : Listed(l) =>
          \A p \in gone :
            p[1] = req[l].userId =>
              \A k \in 1..Len(ListedItems(l)) : ListedItems(l)[k].image_url # p[2]]_vars

C7_Witness ==
    \E l \in Lanes :
        /\ HasListed(req[l])
        /\ Answer(req[l]).count >= 1
        /\ \E p \in gone : p[1] = req[l].userId

\* C9: list(owner, limit) returns stored records of the owner only, newest
\* first, at most limit of them, and they are the limit newest of the owner.
C9_ListIsNewestOfOwner ==
    [][\A l \in Lanes : Listed(l) =>
          LET items == ListedItems(l)
              mine == OwnedBy(req[l].userId)
          IN  /\ Range(items) \subseteq mine
              /\ \A j, k \in 1..Len(items) :
                    j < k => /\ items[j].created_at >= items[k].created_at
                             /\ items[j] # items[k]
              /\ Len(items) = Least(req[l].limit, Cardinality(mine))
              /\ \A x \in mine \ Range(items), y \in Range(items) :
                    x.created_at <= y.created_at]_vars

C9_Witness ==
    \E l \in Lanes :
        /\ HasListed(req[l])
        /\ req[l].limit = 1
        /\ Answer(req[l]).count = 1
        /\ \E x \in OwnedBy(req[l].userId) :
              x.created_at < Answer(req[l]).savedImages[1].created_at

Created(l) ==
    /\ req[l].pc = "await_put"
    /\ req'[l].pc = "responded"
    /\ req'[l].resp[1].statusCode \in {200, 201}

\* the records of a store state with the owner and the URL of item
SameOwnerAndUrl(stored, item) ==
    {x \in stored : x.user_id = item.user_id /\ x.image_url = item.image_url}

\* C11: a successful create by an owner who already holds a record of the
\* same payloadUrl leaves every stored record in place and adds one more
\* record of that owner and URL: it never overwrites the earlier record.
C11_CreateNeverOverwrites ==
    [][\A l \in Lanes : Created(l) =>
          LET item == req[l].item[1]
          IN  SameOwnerAndUrl(table, item) # {} =>
                /\ table \subseteq table'
                /\ Cardinality(SameOwnerAndUrl(table', item))
                      = Cardinality(SameOwnerAndUrl(table, item)) + 1]_vars

\* C12: in every store state any two distinct records have different ids and
\* different (ownerId, createdAt) pairs.
C12_IdsAndOwnerTimesAreUnique ==
    \A x, y \in table :
        x # y => /\ x.id # y.id
                 /\ <<x.user_id, x.created_at>> # <<y.user_id, y.created_at>>

\* C13: no step changes a stored record: a record that is in the store
\* before and after a step under the same primary key has the same ownerId,
\* createdAt and payloadUrl.
C13_RecordsAreImmutable ==
    [][\A x \in table : \A y \in table' :
          SameKey(x, y) => /\ y.user_id = x.user_id
                           /\ y.created_at = x.created_at
                           /\ y.image_url = x.image_url]_vars

\* the step in which lane l's delete (deleteImageFromDynamoDB) succeeds
Deleted(l) ==
    /\ req[l].pc = "await_delete"
    /\ req'[l].pc = "responded"
    /\ req'[l].resp[1].statusCode = 200

\* C14: where the owner holds two or more records of the URL, a successful
\* deleteByOwnerAndUrl removes exactly one record, the match with the newest
\* createdAt, returns its id and leaves every other record as it was.
C14_DeleteRemovesNewestMatch ==
    [][\A l \in Lanes :
          (Deleted(l) /\ Cardinality(Holding(req[l])) >= 2) =>
            \E x \in Holding(req[l]) :
                /\ \A y \in Holding(req[l]) : y.created_at <= x.created_at
                /\ table' = table \ {x}
                /\ req'[l].resp[1].deleteResult = <<x.id>>]_vars

\* the path segment that precedes the file name (the text after the last
\* slash), as the claim reads the category off the URL
segmentBeforeFile(url) ==
    LET slashes == {i \in 1..Len(url) : url[i] = "/"}
        last == CHOOSE i \in slashes : \A j \in slashes : j <= i
        before == {i \in slashes : i < last}
        start == IF before = {} THEN 1
                 ELSE 1 + CHOOSE i \in before : \A j \in before : j <= i
    IN  SubSeq(url, start, last - 1)

\* the step in which lane l's put for an explicit save_image request returns
\* and the handler answers
SaveAnswered(l) ==
    /\ req[l].pc = "await_put"
    /\ req[l].save
    /\ req'[l].pc = "responded"
    /\ req'[l].resp[1].by = "handler"

\* C15, as stated: a save of a text URL is answered 200 or 201 once the store
\* accepts it and stores a record whose category is the path segment before
\* the file name, hyphens replaced by spaces.
C15_CategoryIsSegmentBeforeFile ==
    [][\A l \in Lanes :
          (SaveAnswered(l) /\ Created(l) /\ isString(req[l].ev.body.imageUrl)) =>
            \E x \in table' :
                /\ x = req[l].item[1]
                /\ x.image_url = req[l].ev.body.imageUrl
                /\ x.breed = [k \in 1..Len(segmentBeforeFile(x.image_url)) |->
                                IF segmentBeforeFile(x.image_url)[k] = "-" THEN " "
                                ELSE segmentBeforeFile(x.image_url)[k]]]_vars

\* the category of each URL of the model under the amended claim: the segment
\* that follows "breeds/", hyphens as spaces, "unknown" without such a segment
C15_Category(url) ==
    CASE url = UrlHound -> <<"a", " ", "b">>
      [] url = UrlPlain -> UnknownBreed
      [] OTHER -> UnknownBreed

\* C15, amended: the handler answers a save 200, or 500 where the store call
\* fails;
\* answered 200 it has stored a record of the URL whose category is the
\* segment that follows "breeds/" with hyphens replaced by spaces, and
\* "unknown" where the URL has no such segment.
C15_CategoryIsSegmentAfterBreeds ==
    [][\A l \in Lanes : SaveAnswered(l) =>
          /\ req'[l].resp[1].statusCode \in {200, 500}
          /\ req'[l].resp[1].statusCode = 200 =>
                \E x \in table' :
                    /\ req'[l].resp[1].savedImage = <<x>>
                    /\ x.user_id = req[l].userId
                    /\ x.image_url = req[l].ev.body.imageUrl
                    /\ x.breed = C15_Category(x.image_url)]_vars

C15_Witness ==
    \E l \in Lanes :
        /\ Answered(req[l])
        /\ req[l].save
        /\ Answer(req[l]).statusCode = 200
        /\ req[l].ev.body.imageUrl = UrlHound
        /\ \E x \in table : /\ Answer(req[l]).savedImage = <<x>>
                              /\ x.breed = <<"a", " ", "b">>

\* no category can be derived from the URL: it is no text, or it has no
\* "breeds/" followed by a non-empty segment and a slash
NoBreedsSegment(url) ==
    \/ ~isString(url)
    \/ ~\E i \in 1..Len(url), j \in 1..Len(url) :
            /\ i + 6 <= Len(url)
            /\ \A k \in 0..6 : url[i + k] = BreedsSlash[k + 1]
            /\ j > i + 7
            /\ url[j] = "/"
            /\ \A k \in (i + 7)..(j - 1) : url[k] # "/"

\* C16: a create whose payloadUrl yields no category does not fail for that:
\* the handler passes the save on to the store with category "unknown", and
\* the put the store accepts writes that record.
C16_UnderivableCategoryIsUnknown ==
    [][\A l \in Lanes :
          /\ (/\ Invoked(req[l])
               /\ req[l].ev.method = "POST"
               /\ isSaveImage(req[l].ev.body)
               /\ NoBreedsSegment(req[l].ev.body.imageUrl)
               /\ req'[l] # req[l])
                => /\ req'[l].pc = "await_put"
                   /\ req'[l].item[1].image_url = req[l].ev.body.imageUrl
                   /\ req'[l].item[1].breed = UnknownBreed
          /\ (Created(l) /\ NoBreedsSegment(req[l].item[1].image_url))
                => \E x \in table' : /\ x = req[l].item[1]
                                       /\ x.breed = UnknownBreed
                                       /\ req'[l].resp[1].savedImage = <<x>>]_vars

C16_Witness ==
    \E l \in Lanes :
        /\ Answered(req[l])
        /\ Answer(req[l]).statusCode = 200
        /\ req[l].save
        /\ req[l].ev.body.imageUrl = UrlNumber
        /\ \E x \in table : /\ x.image_url = UrlNumber
                              /\ x.breed = UnknownBreed
                              /\ Answer(req[l]).savedImage = <<x>>

C18_MalformedBodyIs400 ==
    \A l \in Lanes :
        (/\ req[l].ev.method \in {"POST", "DELETE"}
         /\ CognitoAuthorizerAccepts(req[l].ev.token)
         /\ req[l].ev.body.kind \in {"absent", "text"})
        => /\ req[l].ops = {}
           /\ Answered(req[l]) => Answer(req[l]).statusCode = 400

\* a POST or DELETE in the handler's hands whose JSON body (an object, or
\* null) is not the action of its method together with an imageUrl
Unrecognised(r) ==
    /\ r.pc \notin {"idle", "responded"}
    /\ CognitoAuthorizerAccepts(r.ev.token)
    /\ r.ev.body.kind \in {"json", "absent"}
    /\ \/ r.ev.method = "POST" /\ ~isSaveImage(r.ev.body)
       \/ r.ev.method = "DELETE" /\ ~isDeleteImage(r.ev.body)

C20_HandlerResponsesCarryCors ==
    \A l \in Lanes :
        (Answered(req[l]) /\ Answer(req[l]).by = "handler") => Answer(req[l]).cors

C20_Witness ==
    \E l \in Lanes :
        /\ Answered(req[l])
        /\ Answer(req[l]).by = "handler"
        /\ Answer(req[l]).statusCode = 500
        /\ Answer(req[l]).error = "Image not found in saved collection"
        /\ Answer(req[l]).cors

\* the error texts that come from a collaborator: the store's and the
\* content endpoint's
CollaboratorErrors ==
    {"put failed", "query failed", "delete failed", "ValidationException",
     "Invalid JSON response"}

\* C21: where the record store or the content endpoint fails, the answer is
\* 500 and its body does not hold the raw error text of the collaborator.
C21_NoRawErrorText ==
    \A l \in Lanes :
        (/\ Answered(req[l])
         /\ Answer(req[l]).by = "handler"
         /\ Answer(req[l]).statusCode = 500)
        => Answer(req[l]).error \notin CollaboratorErrors

\* C22: a method handler takes a request (Dispatching) only after the
\* authorization of its token produced a verified identity, and the user it
\* serves is the subject of that identity.
C22_DispatchOnlyAfterVerified ==
    \A l \in Lanes :
        (/\ req[l].ev.method \in AuthorizedMethods
         /\ req[l].pc \notin {"idle", "received"}
         /\ ~(Answered(req[l]) /\ Answer(req[l]).by = "gateway"))
        => /\ CognitoAuthorizerAccepts(req[l].ev.token)
           /\ req[l].userId \in {"", req[l].ev.token.sub}

\* C23: a request whose collaborator never replies still ends with a typed
\* error response of the handler: no request is cut off by the platform
\* while the handler waits on an outbound call.
C23_NoRequestIsCutOff ==
    \A l \in Lanes : Answered(req[l]) => Answer(req[l]).by # "platform"

\* a GET of a signed-in caller without the list flag, in the handler's hands
DefaultGet(r) ==
    /\ r.pc \notin {"idle", "responded"}
    /\ r.ev.method = "GET"
    /\ r.ev.query.action # "saved"
    /\ CognitoAuthorizerAccepts(r.ev.token)

\* C25: a GET with a valid token and no list flag writes nothing to the
\* store, and where the content endpoint returns a URL the handler answers
\* 200 with that very URL under dogData.message.
C25_GetReturnsFetchedImage ==
    [][\A l \in Lanes :
          (DefaultGet(req[l]) /\ req'[l] # req[l]) =>
            /\ table' = table
            /\ userIndex' = userIndex
            /\ req'[l].ops = {}
            /\ (req'[l].pc = "responded" /\ req'[l].dog # NoUrl) =>
                  /\ req'[l].resp[1].by = "handler"
                  /\ req'[l].resp[1].statusCode = 200
                  /\ req'[l].resp[1].dogData = <<req'[l].dog>>
                  /\ req'[l].resp[1].savedImage = <<>>]_vars

C25_Witness ==
    \E l \in Lanes :
        /\ Answered(req[l])
        /\ req[l].ev.method = "GET"
        /\ req[l].ev.query.action # "saved"
        /\ CognitoAuthorizerAccepts(req[l].ev.token)
        /\ Answer(req[l]).statusCode = 200
        /\ Answer(req[l]).dogData = <<UrlPlain>>
        /\ table # {}

\* C26: an authenticated POST whose JSON body has no action field and that
\* gets a dog image is answered 200 with the image under dogData.message.
C26_PlainPostIs200 ==
    \A l \in Lanes :
        (/\ Answered(req[l])
         /\ req[l].ev.method = "POST"
         /\ CognitoAuthorizerAccepts(req[l].ev.token)
         /\ req[l].ev.body = Body("json", "", NoUrl)
         /\ Answer(req[l]).dogData # <<>>)
        => Answer(req[l]).statusCode = 200

\* C27: the app renders the protected content only in authState
\* 'authenticated'; authState is 'authenticated' only if, since the page
\* loaded, getCurrentUser succeeded or signIn returned isSignedIn; and right
\* after a successful signOut authState is 'signIn' with user and userInfo null.
C27_ProtectedOnlyWhenAuthenticated ==
    /\ render(app) = "renderAuthenticated" => app.authState = "authenticated"
    /\ app.authState = "authenticated" => app.proven
    /\ app.last = "signOut" =>
          /\ app.authState = "signIn"
          /\ app.user = null
          /\ app.userInfo = null

\* u2 signed up, verified the e-mail, signed in and sees the content
C27_Witness ==
    /\ render(app) = "renderAuthenticated"
    /\ app.user = "u2"
    /\ app.pool["u2"] = "confirmed"
    /\ app.proven

\* u1 signed out after having seen the content
C27_SignedOut ==
    /\ app.last = "signOut"
    /\ app.session = null

\* C28: every stored record is owned by the sub of the verified identity of
\* the request that wrote it; no request reads or writes the store under the
\* placeholder owner 'unknown' or under an owner its token does not prove.
C28_OwnerIsVerifiedSubject ==
    /\ \A x \in table : x.user_id \in Users
    /\ \A l \in Lanes :
          req[l].ops # {} =>
            /\ CognitoAuthorizerAccepts(req[l].ev.token)
            /\ req[l].userId = req[l].ev.token.sub
            /\ req[l].userId # "unknown"

\* C29: a DELETE reports success only for a record it removed: of two
\* concurrent deletes of the owner's only matching record at most one
\* answers 200 with its deletedId.
C29_SuccessRemovesARecord ==
    [][\A l \in Lanes :
          Deleted(l) => \E x \in table : SameKey(x, deleteKeyOf(req[l].found))]_vars

\* C30: the Limit of every list query is an integer >= 1.
C30_LimitIsPositive ==
    \A l \in Lanes : req[l].pc = "await_list" => req[l].limit >= 1

====
